---- MODULE Spec2Model ----
(***************************************************************************)
(* Model of big-integer/rust/src/lib.rs: BigInt, a sign + decimal digit    *)
(* vector (most significant digit first, digits stored as i8), with        *)
(* parsing, rendering, comparison, negation, +, -, * and /.                *)
(*                                                                         *)
(* Rust indices are 0-based; sequences here are 1-based, so value[i] of    *)
(* the source is value[i+1] below.  Text is a sequence of one-character    *)
(* strings.                                                                *)
(***************************************************************************)
EXTENDS Integers, Sequences, FiniteSets, TLC

VARIABLES a, b, r

vars == <<a, b, r>>

(***************************************************************************)
(* Bounds of the exploration.                                              *)
(***************************************************************************)
MaxVal == 101       \* operands of the arithmetic range over -MaxVal..MaxVal
MaxTextLen == 4     \* longest text handed to BigInt::new
SeqTextLen == 2     \* longest text constructed inside a sequence of operations
MaxStored == 20     \* results kept as operands range over -MaxStored..MaxStored

(***************************************************************************)
(* Characters and primitive integer arithmetic.                            *)
(***************************************************************************)
Chars == {"+", "-", ".", "0", "1", "9", "a"}

Code(c) ==
    CASE c = "+" -> 43 [] c = "-" -> 45 [] c = "." -> 46
      [] c = "0" -> 48 [] c = "1" -> 49 [] c = "2" -> 50 [] c = "3" -> 51
      [] c = "4" -> 52 [] c = "5" -> 53 [] c = "6" -> 54 [] c = "7" -> 55
      [] c = "8" -> 56 [] c = "9" -> 57 [] c = "a" -> 97

DigitChar(d) ==
    CASE d = 0 -> "0" [] d = 1 -> "1" [] d = 2 -> "2" [] d = 3 -> "3"
      [] d = 4 -> "4" [] d = 5 -> "5" [] d = 6 -> "6" [] d = 7 -> "7"
      [] d = 8 -> "8" [] d = 9 -> "9"

\* i8 arithmetic keeps 8 bits (two's complement).
I8(n) == ((n + 128) % 256) - 128

\* Rust's / and % on integers truncate toward zero.
TruncDiv(n, d) == IF n >= 0 THEN n \div d ELSE -((-n) \div d)

TruncRem(n, d) == n - d * TruncDiv(n, d)

RECURSIVE NatToString(_)
NatToString(n) ==
    IF n < 10 THEN <<DigitChar(n)>>
    ELSE NatToString(n \div 10) \o <<DigitChar(n % 10)>>

\* i8::to_string
to_string(p) == IF p < 0 THEN <<"-">> \o NatToString(-p) ELSE NatToString(p)

(***************************************************************************)
(* Outcomes: a returned value or a panic.                                  *)
(***************************************************************************)
Ok(x) == [ok |-> TRUE, err |-> "", v |-> x]

Panic(msg) == [ok |-> FALSE, err |-> msg, v |-> "none"]

(***************************************************************************)
(* Display::fmt                                                            *)
(***************************************************************************)
RECURSIVE fold_digits(_)
fold_digits(value) ==
    IF value = <<>> THEN <<>>
    ELSE to_string(Head(value)) \o fold_digits(Tail(value))

fmt(self) ==
    (IF self.positive THEN <<>> ELSE <<"-">>) \o fold_digits(self.value)

(***************************************************************************)
(* PartialOrd::partial_cmp                                                 *)
(***************************************************************************)
cmp_bool(x, y) ==
    IF x = y THEN "Equal" ELSE IF (~x) /\ y THEN "Less" ELSE "Greater"

cmp_int(x, y) ==
    IF x = y THEN "Equal" ELSE IF x < y THEN "Less" ELSE "Greater"

RECURSIVE cmp_vec(_, _)
cmp_vec(x, y) ==
    IF x = <<>> /\ y = <<>> THEN "Equal"
    ELSE IF x = <<>> THEN "Less"
    ELSE IF y = <<>> THEN "Greater"
    ELSE IF Head(x) # Head(y) THEN cmp_int(Head(x), Head(y))
    ELSE cmp_vec(Tail(x), Tail(y))

partial_cmp(self, other) ==
    LET o1 == cmp_bool(self.positive, other.positive)
        o2 == cmp_int(Len(self.value), Len(other.value))
    IN  IF o1 # "Equal" THEN o1
        ELSE IF o2 # "Equal" THEN o2
        ELSE cmp_vec(self.value, other.value)

lt(x, y) == partial_cmp(x, y) = "Less"

ge(x, y) == partial_cmp(x, y) \in {"Greater", "Equal"}

(***************************************************************************)
(* BigInt::new, set_zero_positive, abs, trim_zero, Neg::neg                *)
(***************************************************************************)
set_zero_positive_keep(self) == self

set_zero_positive(self) ==
    IF Len(self.value) = 1 /\ self.value[1] = 0
    THEN [self EXCEPT !.positive = TRUE]
    ELSE self

is_not_digit_lower_only(c) == Code(c) < 48

is_not_digit(c) == Code(c) < 48 \/ Code(c) > 57

RECURSIVE skip_zeros(_, _)
skip_zeros(v, begin_index) ==
    IF begin_index < Len(v) /\ v[begin_index + 1] = "0"
    THEN skip_zeros(v, begin_index + 1)
    ELSE begin_index

new(v) ==
    IF Len(v) = 0 THEN Panic("IllegalArgument")
    ELSE
      LET positive == v[1] # "-"
          b0 == IF v[1] \in {"-", "+"} THEN 1 ELSE 0
          b1 == skip_zeros(v, b0)
          begin_index == IF b1 = Len(v) THEN b1 - 1 ELSE b1
          rest == SubSeq(v, begin_index + 1, Len(v))
      IN  IF \E i \in 1..Len(rest) : is_not_digit(rest[i])
          THEN Panic("IllegalArgument")
          ELSE Ok(set_zero_positive(
                 [positive |-> positive,
                  value |-> [i \in 1..Len(rest) |-> I8(Code(rest[i]) - 48)]]))

zero == new(<<"0">>).v

one == <<1>>

abs(self) == [positive |-> TRUE, value |-> self.value]

RECURSIVE drop_zeros(_)
drop_zeros(value) ==
    IF value # <<>> /\ Head(value) = 0 THEN drop_zeros(Tail(value)) ELSE value

trim_zero(self) == [self EXCEPT !.value = drop_zeros(self.value)]

neg(self) ==
    IF self.value = <<0>> THEN self
    ELSE [positive |-> ~self.positive, value |-> self.value]

\* self.value.len() < rhs.value.len() ||
\*   (self.value.len() == rhs.value.len() && self.value < rhs.value)
mag_less(self, rhs) ==
    \/ Len(self.value) < Len(rhs.value)
    \/ /\ Len(self.value) = Len(rhs.value)
       /\ cmp_vec(self.value, rhs.value) = "Less"

(***************************************************************************)
(* Add::add and Sub::sub.  The two operators call each other; add_call and *)
(* sub_call return the value together with the number of nested add/sub    *)
(* invocations on the call stack at the deepest point (this call counted). *)
(***************************************************************************)
RECURSIVE add_call(_, _), sub_call(_, _)

\* One iteration of the digit loops of add (lines 135-148), at index i of
\* longer (1-based).  j is the matching index of shorter; the second loop
\* (lines 143-148) is the same step without a digit of shorter.
add_step(longer, shorter, sum, i) ==
    LET j == i - (Len(longer) - Len(shorter))
        k == i + 1
        s == IF j >= 1 THEN I8(I8(longer[i] + shorter[j]) + sum[k])
                       ELSE I8(longer[i] + sum[k])
    IN  [sum EXCEPT ![k] = TruncRem(s, 10), ![i] = TruncDiv(s, 10)]

RECURSIVE add_digits(_, _, _, _)
add_digits(longer, shorter, sum, i) ==
    IF i = 0 THEN sum
    ELSE add_digits(longer, shorter, add_step(longer, shorter, sum, i), i - 1)

add_same_sign(self, rhs) ==
    LET swap == Len(self.value) < Len(rhs.value)
        longer == IF swap THEN rhs.value ELSE self.value
        shorter == IF swap THEN self.value ELSE rhs.value
        sum0 == [k \in 1..(Len(longer) + 1) |-> 0]
    IN  trim_zero([positive |-> self.positive,
                   value |-> add_digits(longer, shorter, sum0, Len(longer))])

add_call(self, rhs) ==
    IF self.positive # rhs.positive
    THEN IF self.positive
         THEN LET c == sub_call(self, neg(rhs))
              IN  [v |-> c.v, calls |-> 1 + c.calls]
         ELSE LET c == sub_call(rhs, neg(self))
              IN  [v |-> c.v, calls |-> 1 + c.calls]
    ELSE [v |-> add_same_sign(self, rhs), calls |-> 1]

\* vec![9; len + 1] with [0] = 0, [1] = -1, [len] = 10 (lines 193-199)
diff_init(len) ==
    [k \in 1..(len + 1) |->
        IF k - 1 = len THEN 10
        ELSE IF k - 1 = 1 THEN -1
        ELSE IF k - 1 = 0 THEN 0
        ELSE 9]

\* One iteration of the digit loops of sub (lines 202-215).
sub_step(self, rhs, diff, i) ==
    LET j == i - (Len(self) - Len(rhs))
        k == i + 1
        d == IF j >= 1 THEN I8(I8(self[i] + diff[k]) - rhs[j])
                       ELSE I8(self[i] + diff[k])
    IN  [diff EXCEPT ![k] = TruncRem(d, 10), ![i] = I8(@ + TruncDiv(d, 10))]

RECURSIVE sub_digits(_, _, _, _)
sub_digits(self, rhs, diff, i) ==
    IF i = 0 THEN diff
    ELSE sub_digits(self, rhs, sub_step(self, rhs, diff, i), i - 1)

\* lines 192-218: self > rhs >= 0, more than one digit
sub_larger_first(self, rhs) ==
    trim_zero([positive |-> TRUE,
               value |-> sub_digits(self.value, rhs.value,
                                    diff_init(Len(self.value)),
                                    Len(self.value))])

sub_smaller_same_sign(self, rhs) ==
    LET c == sub_call(abs(rhs), abs(self))
    IN  [v |-> [positive |-> self.positive, value |-> c.v.value],
         calls |-> 1 + c.calls]

sub_smaller_by_negation(self, rhs) ==
    LET c == sub_call(rhs, self)
    IN  [v |-> neg(c.v), calls |-> 1 + c.calls]

\* lines 174-177: |self| < |rhs|, same sign
sub_smaller(self, rhs) ==
    LET c == sub_call(abs(rhs), abs(self))
    IN  [v |-> [positive |-> ~self.positive, value |-> c.v.value],
         calls |-> 1 + c.calls]

sub_call(self, rhs) ==
    IF self = rhs THEN [v |-> new(<<"0">>).v, calls |-> 1]
    ELSE IF self.positive # rhs.positive
    THEN IF self.positive
         THEN LET c == add_call(self, neg(rhs))
              IN  [v |-> c.v, calls |-> 1 + c.calls]
         ELSE LET c == add_call(rhs, neg(self))
              IN  [v |-> neg(c.v), calls |-> 1 + c.calls]
    ELSE IF mag_less(self, rhs) THEN sub_smaller(self, rhs)
    ELSE IF ~self.positive
    THEN LET c == sub_call(abs(self), abs(rhs))
         IN  [v |-> [positive |-> FALSE, value |-> c.v.value],
              calls |-> 1 + c.calls]
    ELSE IF Len(self.value) = 1
    THEN [v |-> [positive |-> TRUE,
                 value |-> <<I8(self.value[1] - rhs.value[1])>>],
          calls |-> 1]
    ELSE [v |-> sub_larger_first(self, rhs), calls |-> 1]

add(self, rhs) == add_call(self, rhs).v

sub(self, rhs) == sub_call(self, rhs).v

(***************************************************************************)
(* Mul::mul                                                                *)
(***************************************************************************)
mul_step_overwrite_carry(self, rhs, product, i, j) ==
    LET h == i + j - 1
        l == i + j
        p == I8(I8(self[i] * rhs[j]) + product[l])
    IN  [product EXCEPT ![l] = TruncRem(p, 10), ![h] = TruncDiv(p, 10)]

\* Body of the nested loops (lines 251-256); h and l are 1-based.
mul_step(self, rhs, product, i, j) ==
    LET h == i + j - 1
        l == i + j
        p == I8(I8(self[i] * rhs[j]) + product[l])
    IN  [product EXCEPT ![l] = TruncRem(p, 10),
                        ![h] = I8(@ + TruncDiv(p, 10))]

RECURSIVE mul_digits(_, _, _, _, _)
mul_digits(self, rhs, product, i, j) ==
    IF i = 0 THEN product
    ELSE IF j = 0 THEN mul_digits(self, rhs, product, i - 1, Len(rhs))
    ELSE mul_digits(self, rhs, mul_step(self, rhs, product, i, j), i, j - 1)

mul(self, rhs) ==
    IF self = zero \/ rhs = zero THEN zero
    ELSE
      LET sign == (self.positive = rhs.positive)
      IN  IF self.value = one THEN [positive |-> sign, value |-> rhs.value]
          ELSE IF rhs.value = one THEN [positive |-> sign, value |-> self.value]
          ELSE trim_zero(
                 [positive |-> sign,
                  value |-> mul_digits(self.value, rhs.value,
                              [k \in 1..(Len(self.value) + Len(rhs.value)) |-> 0],
                              Len(self.value), Len(rhs.value))])

(***************************************************************************)
(* Div::div                                                                *)
(***************************************************************************)
RECURSIVE div(_, _)

\* lines 312-316: push dividend digits until diff >= rhs; i digits pushed
RECURSIVE take_prefix(_, _, _)
take_prefix(dividend, rhs, i) ==
    IF ge([positive |-> TRUE, value |-> SubSeq(dividend.value, 1, i)], rhs)
    THEN i
    ELSE take_prefix(dividend, rhs, i + 1)

\* lines 319-324: subtract rhs until diff < rhs, counting
RECURSIVE count_sub(_, _, _)
count_sub(diff, rhs, c) ==
    LET d == sub(diff, rhs)
    IN  IF lt(d, rhs) THEN [diff |-> d, c |-> c]
        ELSE count_sub(d, rhs, I8(c + 1))

\* lines 335-341: after a zero remainder, one quotient zero per zero digit.
\* i is the 0-based index of the source.
RECURSIVE zero_run(_, _, _)
zero_run(dividend, quotient, i) ==
    IF dividend.value[i + 1] = 0
    THEN IF i + 1 >= Len(dividend.value)
         THEN [quotient |-> Append(quotient, 0), i |-> i + 1, done |-> TRUE]
         ELSE zero_run(dividend, Append(quotient, 0), i + 1)
    ELSE [quotient |-> quotient, i |-> i, done |-> FALSE]

\* lines 347-358: bring digits down, one quotient zero while rest < rhs
RECURSIVE bring_down(_, _, _, _, _)
bring_down(dividend, rhs, quotient, rest, i) ==
    LET rest1 == [rest EXCEPT !.value = Append(@, dividend.value[i + 1])]
    IN  IF lt(rest1, rhs)
        THEN IF i + 1 >= Len(dividend.value)
             THEN [quotient |-> Append(quotient, 0), rest |-> rest1,
                   i |-> i + 1, done |-> TRUE]
             ELSE bring_down(dividend, rhs, Append(quotient, 0), rest1, i + 1)
        ELSE [quotient |-> quotient, rest |-> rest1, i |-> i + 1,
              done |-> FALSE]

\* lines 304-365: the 'outer loop; returns the quotient digits.  One
\* iteration is split at the points where the source has computed i, the
\* quotient digit with diff, the zero run, and rest.
RECURSIVE long_division(_, _, _)

\* lines 360-364: rest takes the remaining digits and becomes the dividend
outer_next(dividend, rhs, bd) ==
    IF bd.done THEN bd.quotient
    ELSE IF lt([bd.rest EXCEPT !.value =
                  @ \o SubSeq(dividend.value, bd.i + 1, Len(dividend.value))],
               rhs)
    THEN bd.quotient
    ELSE long_division(
           [bd.rest EXCEPT !.value =
              @ \o SubSeq(dividend.value, bd.i + 1, Len(dividend.value))],
           rhs, bd.quotient)

\* lines 329-358: rest starts empty after a zero remainder, else as diff
outer_rest(dividend, rhs, diff, zr) ==
    IF zr.done THEN zr.quotient
    ELSE outer_next(dividend, rhs,
           bring_down(dividend, rhs, zr.quotient,
                      [positive |-> TRUE,
                       value |-> IF diff = zero THEN <<>> ELSE diff.value],
                      zr.i))

\* lines 325-344: push the quotient digit; stop when the digits are used up
outer_digit(dividend, rhs, quotient, i, cs) ==
    IF i >= Len(dividend.value) THEN Append(quotient, cs.c)
    ELSE outer_rest(dividend, rhs, cs.diff,
           IF cs.diff = zero
           THEN zero_run(dividend, Append(quotient, cs.c), i)
           ELSE [quotient |-> Append(quotient, cs.c), i |-> i,
                 done |-> FALSE])

\* lines 305-324: diff is the shortest prefix >= rhs, c the subtractions
outer_prefix(dividend, rhs, quotient, i) ==
    outer_digit(dividend, rhs, quotient, i,
        count_sub([positive |-> TRUE, value |-> SubSeq(dividend.value, 1, i)],
                  rhs, 1))

long_division(dividend, rhs, quotient) ==
    outer_prefix(dividend, rhs, quotient, take_prefix(dividend, rhs, 1))

\* lines 271-368: everything after the test of the divisor against zero
div_nonzero(self, rhs) ==
    LET sign == (self.positive = rhs.positive)
    IN  IF rhs.value = one
        THEN Ok([positive |-> sign, value |-> self.value])
        ELSE IF mag_less(self, rhs) THEN Ok(zero)
        ELSE IF self.value = rhs.value
        THEN Ok([positive |-> sign, value |-> one])
        ELSE IF (~sign) \/ (~self.positive)
        THEN LET q == div(abs(self), abs(rhs))
             IN  IF q.ok THEN Ok([positive |-> sign, value |-> q.v.value])
                 ELSE q
        ELSE Ok([positive |-> sign,
                 value |-> long_division(self, rhs, <<>>)])

div_zero_test_after_shortcuts(self, rhs) ==
    IF rhs.value = one \/ mag_less(self, rhs) \/ self.value = rhs.value
    THEN div_nonzero(self, rhs)
    ELSE IF rhs = zero THEN Panic("divisor can't be 0")
    ELSE div_nonzero(self, rhs)

div(self, rhs) ==
    IF rhs = zero THEN Panic("divisor can't be 0")
    ELSE div_nonzero(self, rhs)

(***************************************************************************)
(* What the values denote, for stating the properties.                     *)
(***************************************************************************)
Digits == {"0", "1", "2", "3", "4", "5", "6", "7", "8", "9"}

Signs == {"+", "-"}

RECURSIVE NatOf(_)
NatOf(value) ==
    IF value = <<>> THEN 0
    ELSE 10 * NatOf(SubSeq(value, 1, Len(value) - 1)) + value[Len(value)]

\* the integer a BigInt denotes
IntOf(x) == IF x.positive THEN NatOf(x.value) ELSE -NatOf(x.value)

\* canonical decimal rendering of a mathematical integer
RenderInt(n) == IF n < 0 THEN <<"-">> \o NatToString(-n) ELSE NatToString(n)

IsCanonical(x) ==
    /\ Len(x.value) >= 1
    /\ \A i \in 1..Len(x.value) : x.value[i] \in 0..9
    /\ (x.value[1] = 0 => Len(x.value) = 1)
    /\ (x.value = <<0>> => x.positive)

\* an optional single leading sign followed by one or more digits
ValidText(t) ==
    /\ Len(t) >= 1
    /\ LET d == IF t[1] \in Signs THEN Tail(t) ELSE t
       IN  Len(d) >= 1 /\ \A i \in 1..Len(d) : d[i] \in Digits

\* the integer a valid text denotes
TextInt(t) ==
    LET d == IF t[1] \in Signs THEN Tail(t) ELSE t
        n == NatOf([i \in 1..Len(d) |-> Code(d[i]) - 48])
    IN  IF t[1] = "-" THEN -n ELSE n

MathOrd(x, y) == IF x < y THEN "Less" ELSE IF x = y THEN "Equal" ELSE "Greater"

\* sign of x/y times floor(|x| / |y|)
MathQuot(x, y) ==
    LET ax == IF x < 0 THEN -x ELSE x
        ay == IF y < 0 THEN -y ELSE y
    IN  IF (x < 0) = (y < 0) THEN ax \div ay ELSE -(ax \div ay)

(***************************************************************************)
(* The client of the library: two values a and b, and the record r of the  *)
(* last operation with its operands and outcome.  With keep, a result is   *)
(* stored and becomes an operand of later operations.                      *)
(***************************************************************************)
TextsUpTo(n) == UNION {[1..k -> Chars] : k \in 0..n}

\* longer operands: carries, borrows and zero runs over four and five digits
Longer == {999, 1000, 1005, 9099, 9999, 10010}

Operands ==
    {new(RenderInt(n)).v :
        n \in ((-MaxVal)..MaxVal) \cup Longer \cup {-n : n \in Longer}}

Rec(op, text, out, ord, calls) ==
    [op |-> op, lhs |-> a, rhs |-> b, text |-> text, ok |-> out.ok,
     err |-> out.err, v |-> out.v, ord |-> ord, calls |-> calls]

NoOp ==
    [op |-> "none", lhs |-> zero, rhs |-> zero, text |-> <<>>,
     ok |-> FALSE, err |-> "", v |-> "none", ord |-> "", calls |-> 0]

Fits(x) == -MaxStored <= IntOf(x) /\ IntOf(x) <= MaxStored

\* the arithmetic is explored on canonical operands
OperandsCanonical == IsCanonical(a) /\ IsCanonical(b)

Construct(T, keep) ==
    \E t \in T :
        LET out == new(t)
        IN  /\ r' = Rec("new", t, out, "", 0)
            /\ b' = IF keep /\ out.ok THEN out.v ELSE b
            /\ a' = a

Store(keep, out) ==
    /\ keep /\ out.ok => Fits(out.v)
    /\ a' = IF keep /\ out.ok THEN out.v ELSE a
    /\ b' = b

Compare ==
    /\ OperandsCanonical
    /\ r' = Rec("cmp", <<>>, Panic(""), partial_cmp(a, b), 0)
    /\ UNCHANGED <<a, b>>

Negate(keep) ==
    /\ OperandsCanonical
    /\ LET out == Ok(neg(a))
       IN  r' = Rec("neg", <<>>, out, "", 0) /\ Store(keep, out)

AddOp(keep) ==
    /\ OperandsCanonical
    /\ LET c == add_call(a, b)
       IN  r' = Rec("add", <<>>, Ok(c.v), "", c.calls) /\ Store(keep, Ok(c.v))

SubOp(keep) ==
    /\ OperandsCanonical
    /\ LET c == sub_call(a, b)
       IN  r' = Rec("sub", <<>>, Ok(c.v), "", c.calls) /\ Store(keep, Ok(c.v))

MulOp(keep) ==
    /\ OperandsCanonical
    /\ LET out == Ok(mul(a, b))
       IN  r' = Rec("mul", <<>>, out, "", 0) /\ Store(keep, out)

DivOp(keep) ==
    /\ OperandsCanonical
    /\ LET out == div(a, b)
       IN  r' = Rec("div", <<>>, out, "", 0) /\ Store(keep, out)

\* A sequence of operations on stored results.
Init ==
    /\ a = new(<<"0">>).v
    /\ b = new(<<"0">>).v
    /\ r = NoOp

Next ==
    \/ Construct(TextsUpTo(SeqTextLen), TRUE)
    \/ Compare
    \/ Negate(TRUE)
    \/ AddOp(TRUE)
    \/ SubOp(TRUE)
    \/ MulOp(TRUE)
    \/ DivOp(TRUE)

Spec == Init /\ [][Next]_vars

\* Each operation applied once to every pair of canonical operands.
InitArith ==
    /\ a \in Operands
    /\ b \in Operands
    /\ r = NoOp

NextArith ==
    \/ Compare
    \/ Negate(FALSE)
    \/ AddOp(FALSE)
    \/ SubOp(FALSE)
    \/ MulOp(FALSE)
    \/ DivOp(FALSE)

SpecArith == InitArith /\ [][NextArith]_vars

\* The constructor applied once to every text.
InitParse ==
    /\ a = new(<<"0">>).v
    /\ b = new(<<"0">>).v
    /\ r \in {[NoOp EXCEPT !.text = t] : t \in TextsUpTo(MaxTextLen)}

NextParse == Construct({r.text}, FALSE)

SpecParse == InitParse /\ [][NextParse]_vars

(***************************************************************************)
(* Properties.                                                             *)
(***************************************************************************)
ValueOps == {"new", "neg", "add", "sub", "mul", "div"}

\* C1: every Integer obtained from construct, negate, add, sub, mul or div
\* is in canonical form: non-empty magnitude, digits in 0..9, no leading
\* zero unless the magnitude is the single digit 0, and zero is positive.
ResultsCanonical ==
    (r.op \in ValueOps /\ r.ok) => IsCanonical(r.v)

\* C2: the rendering of add(a, b) is the canonical decimal rendering of the
\* sum a + b, for all canonical a and b.
AddRendersSum ==
    r.op = "add" => fmt(r.v) = RenderInt(IntOf(r.lhs) + IntOf(r.rhs))

\* C3: for b # 0 the rendering of div(a, b) is the canonical decimal
\* rendering of the quotient of a by b truncated toward zero.
DivRendersTruncatedQuotient ==
    (r.op = "div" /\ r.rhs # zero) =>
        /\ r.ok
        /\ fmt(r.v) = RenderInt(MathQuot(IntOf(r.lhs), IntOf(r.rhs)))

\* C4: compare returns Less, Equal or Greater exactly when the integer
\* denoted by a is smaller than, equal to or larger than that denoted by b.
CompareMatchesValue ==
    r.op = "cmp" => r.ord = MathOrd(IntOf(r.lhs), IntOf(r.rhs))

\* C5: the rendering of sub(a, b) is the canonical decimal rendering of the
\* difference a - b, for all canonical a and b; sub(a, a) is canonical zero.
SubRendersDifference ==
    r.op = "sub" =>
        /\ fmt(r.v) = RenderInt(IntOf(r.lhs) - IntOf(r.rhs))
        /\ (r.lhs = r.rhs => r.v = zero)

SubBorrowsAcrossDigits ==
    /\ r.op = "sub"
    /\ r.lhs.positive /\ r.rhs.positive
    /\ Len(r.lhs.value) = 3
    /\ Len(r.v.value) = 2

\* C6: the rendering of mul(a, b), computed in i8 digit slots in a buffer of
\* len(a) + len(b) digits, is the canonical decimal rendering of the product
\* a * b; a * 0 is the canonical, positive zero.
MulRendersProduct ==
    r.op = "mul" =>
        /\ fmt(r.v) = RenderInt(IntOf(r.lhs) * IntOf(r.rhs))
        /\ (r.lhs = zero \/ r.rhs = zero => r.v = zero)

MulFillsBuffer ==
    /\ r.op = "mul"
    /\ Len(r.lhs.value) = 2 /\ Len(r.rhs.value) = 2
    /\ Len(r.v.value) = 4
    /\ ~r.v.positive

\* C7: for every valid text t (optional single sign, then one or more
\* digits) the rendering of construct(t) is t's canonical form: no sign
\* unless negative, no redundant leading zeros, every zero rendered "0".
ConstructRendersCanonical ==
    (r.op = "new" /\ ValidText(r.text)) =>
        /\ r.ok
        /\ fmt(r.v) = RenderInt(TextInt(r.text))

SignedZeroConstructed ==
    /\ r.op = "new" /\ r.ok
    /\ Len(r.text) >= 3 /\ r.text[1] = "-"
    /\ fmt(r.v) = <<"0">>

\* the text is empty, or has a non-digit outside the optional leading sign
\* (which covers a sign at any position but the first and a second sign)
Malformed(t) ==
    \/ Len(t) = 0
    \/ t[1] \notin Digits \cup Signs
    \/ \E i \in 2..Len(t) : t[i] \notin Digits

\* C8: construct fails and returns no Integer for every text that is empty,
\* has a non-digit outside the optional leading sign, has a sign at a
\* position other than the first, or has more than one sign.
ConstructRejectsMalformed ==
    (r.op = "new" /\ Malformed(r.text)) =>
        (~r.ok /\ r.err = "IllegalArgument")

SignAfterZerosRejected ==
    /\ r.op = "new" /\ ~r.ok
    /\ Len(r.text) >= 3
    /\ r.text[1] = "0" /\ r.text[2] = "0"
    /\ r.text[Len(r.text)] \in Signs

\* C9: div(a, b) signals the division by zero, with no result, exactly when
\* b is the canonical zero, for every canonical a.
DivByZeroSignalled ==
    r.op = "div" =>
        ((r.rhs = zero) <=> (~r.ok /\ r.err = "divisor can't be 0"))

ZeroByZeroSignalled ==
    r.op = "div" /\ r.lhs = zero /\ r.rhs = zero /\ ~r.ok

\* C10: add and sub terminate with a chain of at most three nested add/sub
\* invocations, the original call counted: a differing-sign add delegates
\* to a same-sign sub, a differing-sign sub to a same-sign add, and a
\* same-sign sub at most once to a sub that completes, so a sub needs at
\* most two.
DelegationBounded ==
    /\ r.op = "add" => r.calls \in 1..3
    /\ r.op = "sub" => r.calls \in 1..2

DelegationThreeDeep ==
    r.op = "add" /\ r.calls = 3 /\ r.ok

====
